---------------------------- MODULE Spec2Model ----------------------------
(***************************************************************************)
(* Model of src/src/crawler.py: the chunked, paginated harvesting loop     *)
(* (fetch_repos_for_query and the __main__ block) and the bulk upsert      *)
(* (store_in_db).                                                          *)
(*                                                                         *)
(* Python dicts are modelled as sequences of records with pairwise         *)
(* distinct keys, in insertion order (a dict keeps the position of a key   *)
(* that is assigned again).  A harvested record is the tuple               *)
(* <<id, nameWithOwner, stargazerCount>> the code builds at lines 95-99.   *)
(***************************************************************************)
EXTENDS Integers, Sequences, FiniteSets, TLC

(***************************************************************************)
(* Bounds of the model.                                                    *)
(***************************************************************************)
\* number of distinct repository identities the source can return
NumIds == 3
\* number of distinct observations (name, star count) of one repository
NumObs == 2
\* number of distinct non-null pagination cursors
NumCursors == 1
\* number of store_in_db invocations with the same list (re-runs)
MaxCalls == 2
\* the run dates date.today() is drawn from, as day numbers 0..MaxToday
MaxToday == 1

(***************************************************************************)
(* Program constants, scaled down so that the cases they delimit happen    *)
(* within the bounds.                                                      *)
(***************************************************************************)
\* TARGET_COUNT = 100000 (line 147)
TARGET_COUNT == 2
\* limit_per_query=1000 (line 48)
limit_per_query == 2
\* search(first: 100) (line 32): the most nodes one page carries
PageSize == 2
\* range(120) (line 154): the number of chunk queries
NumChunks == 2
\* page_size=500 (line 136): rows per INSERT statement of execute_values
page_size == 1

(***************************************************************************)
(* Constants of the query planner (lines 153-159), at their own values:    *)
(* the planner is checked at full size, the harvest over NumChunks of its  *)
(* queries.  Dates are day numbers; a timedelta is a number of days.       *)
(***************************************************************************)
\* range(120) (line 154)
PlanChunks == 120
\* timedelta(days=1) (line 155)
GapDays == 1
\* timedelta(days=30) (line 156)
WindowDays == 30

Ids == 1..NumIds
Obs == 1..NumObs
\* Python's None as a cursor value
NoCursor == 0
Cursors == 0..NumCursors
\* crawled_at of a row the INSERT created: the statement gives no value, so
\* the column keeps its default
DefaultCrawledAt == 0

NameAt(v) == <<"nameWithOwner", v>>

(***************************************************************************)
(* Result nodes of data.search.nodes.  None is a null node; a node is a    *)
(* record whose DOMAIN is the set of keys of the JSON object.              *)
(***************************************************************************)
None == [none |-> TRUE]
RepoNode(i, v) == [id |-> i, nameWithOwner |-> NameAt(v), stargazerCount |-> v]
NoIdNode(v) == [nameWithOwner |-> NameAt(v), stargazerCount |-> v]
Nodes == {None} \cup {NoIdNode(1)} \cup {RepoNode(i, v) : i \in Ids, v \in Obs}

RECURSIVE SeqsUpTo(_, _)
SeqsUpTo(S, n) ==
    IF n = 0 THEN {<< >>}
    ELSE LET shorter == SeqsUpTo(S, n - 1)
         IN  shorter \cup {Append(s, x) : s \in {t \in shorter : Len(t) = n - 1}, x \in S}

Pages == SeqsUpTo(Nodes, PageSize)
\* the node lists of the bodies whose processing raises after the node loop:
\* whatever the loop stored is lost with the run, one node stands for them
ShortPages == SeqsUpTo(Nodes, 1)

(***************************************************************************)
(* The parsed body of a response (response.json(), line 81).  has_errors:  *)
(* the body has a top-level 'errors' key.  shape: "search" when            *)
(* data.search is an object with a list of nodes and a pageInfo that has   *)
(* both keys; "null" when data is null or absent; "no_search" when data    *)
(* is an object without 'search'; "search_null" when data.search is null;  *)
(* "nodes_null" when search.nodes is null; "no_page_info" when pageInfo is *)
(* null or lacks a key.  rateLimit: "null" when data.rateLimit is null,    *)
(* "ok" when it is an object or the key is absent (line 105's default).    *)
(***************************************************************************)
NoData == [has_errors |-> FALSE, shape |-> "none", nodes |-> << >>,
           hasNextPage |-> FALSE, endCursor |-> NoCursor, rateLimit |-> "ok"]
\* The cursor of a page with hasNextPage false is never read (the loop of
\* line 66 ends) and is taken as null.  A body with an 'errors' key is read
\* no further (lines 83-85): its pageInfo is taken as has-more with the last
\* cursor and its rateLimit as "ok".  Of a body whose shape is not "search"
\* the fields the code never reaches are taken as empty.  The cursor of a
\* body with a null rateLimit is stored but never sent: it is taken as the
\* last cursor, or null without a next page.
Responses ==
    [has_errors : {FALSE}, shape : {"search"}, nodes : Pages,
     hasNextPage : {TRUE}, endCursor : Cursors, rateLimit : {"ok"}]
    \cup
    [has_errors : {FALSE}, shape : {"search"}, nodes : Pages,
     hasNextPage : {FALSE}, endCursor : {NoCursor}, rateLimit : {"ok"}]
    \cup
    [has_errors : {FALSE}, shape : {"search"}, nodes : ShortPages,
     hasNextPage : {TRUE}, endCursor : {NumCursors}, rateLimit : {"null"}]
    \cup
    [has_errors : {FALSE}, shape : {"search"}, nodes : ShortPages,
     hasNextPage : {FALSE}, endCursor : {NoCursor}, rateLimit : {"null"}]
    \cup
    [has_errors : {TRUE}, shape : {"search"}, nodes : Pages,
     hasNextPage : {TRUE}, endCursor : {NumCursors}, rateLimit : {"ok"}]
    \cup
    [has_errors : BOOLEAN, shape : {"null", "no_search"}, nodes : {<< >>},
     hasNextPage : {FALSE}, endCursor : {NoCursor}, rateLimit : {"ok"}]
    \cup
    [has_errors : {FALSE}, shape : {"search_null", "nodes_null"}, nodes : {<< >>},
     hasNextPage : {FALSE}, endCursor : {NoCursor}, rateLimit : {"ok"}]
    \cup
    [has_errors : {FALSE}, shape : {"no_page_info"}, nodes : ShortPages,
     hasNextPage : {FALSE}, endCursor : {NoCursor}, rateLimit : {"ok"}]

(***************************************************************************)
(* Python dict operations on insertion-ordered sequences of records keyed  *)
(* by their first component.                                               *)
(***************************************************************************)
Keys(d) == {d[i][1] : i \in DOMAIN d}
HasKey(d, k) == \E i \in DOMAIN d : d[i][1] = k
IndexOf(d, k) == CHOOSE i \in DOMAIN d : d[i][1] = k
Lookup(d, k) == d[IndexOf(d, k)]

\* DictSet, but a key assigned again moves to the end (delete, then insert)
DictSet_MoveToEnd(d, rec) ==
    Append(SelectSeq(d, LAMBDA x : x[1] # rec[1]), rec)

\* d[rec[1]] = rec  (an existing key keeps its position)
DictSet(d, rec) ==
    IF HasKey(d, rec[1]) THEN [d EXCEPT ![IndexOf(d, rec[1])] = rec]
    ELSE Append(d, rec)

\* DictUpdate, but a key the dict holds keeps its value (setdefault)
RECURSIVE DictUpdate_KeepOld(_, _)
DictUpdate_KeepOld(d, e) ==
    IF e = << >> THEN d
    ELSE DictUpdate_KeepOld(IF HasKey(d, Head(e)[1]) THEN d ELSE Append(d, Head(e)),
                            Tail(e))

\* d.update(e)  (line 165)
RECURSIVE DictUpdate(_, _)
DictUpdate(d, e) ==
    IF e = << >> THEN d
    ELSE DictUpdate(DictSet(d, Head(e)), Tail(e))

\* ProcessNodes, but the loop ends at the first node that is null or has no
\* id: the nodes after it are not collected
RECURSIVE ProcessNodes_StopAtJunk(_, _)
ProcessNodes_StopAtJunk(d, nodes) ==
    IF nodes = << >> THEN d
    ELSE LET repo_node == Head(nodes)
         IN  IF repo_node # None /\ "id" \in DOMAIN repo_node
             THEN ProcessNodes_StopAtJunk(
                      DictSet(d, <<repo_node.id, repo_node.nameWithOwner,
                                   repo_node.stargazerCount>>), Tail(nodes))
             ELSE d

\* the for loop over new_nodes (lines 90-99)
RECURSIVE ProcessNodes(_, _)
ProcessNodes(d, nodes) ==
    IF nodes = << >> THEN d
    ELSE LET repo_node == Head(nodes)
             next == IF repo_node # None /\ "id" \in DOMAIN repo_node
                     THEN DictSet(d, <<repo_node.id, repo_node.nameWithOwner,
                                       repo_node.stargazerCount>>)
                     ELSE d
         IN  ProcessNodes(next, Tail(nodes))

\* final_repos_list[:TARGET_COUNT] when over-collected (lines 174-178)
Truncate(l) == IF Len(l) > TARGET_COUNT THEN SubSeq(l, 1, TARGET_COUNT) ELSE l

VARIABLES
    pc,                \* position of the single thread of control
    GITHUB_TOKEN,      \* TRUE iff the credential is set (line 15)
    DB_PASSWORD,       \* TRUE iff the store's connection parameters are set
                       \* and usable (lines 16-21)
    today,             \* date.today() of the run (line 153)
    start_date,        \* line 153, 156
    end_date,          \* line 155
    query_chunks,      \* the windows of the queries planned so far (line 159)
    chunk_idx,         \* index into query_chunks of the current query
    all_repos_dict,    \* the accumulator (line 148)
    repos_dict,        \* the chunk's mapping (line 57); chunk_dict after return
    has_next_page,     \* line 58
    after_cursor,      \* line 59
    remaining_bound,   \* TRUE iff the local `remaining` has been assigned (line 106)
    request,           \* the request the call in progress posted last (lines 67-74)
    data,              \* the response body the call in progress parsed last (line 81)
    discovery,         \* history: identities in order of first collection
    final_repos_list,  \* line 174
    store,             \* committed rows of github_data.repositories
    txn,               \* rows as seen by the open transaction
    sent,              \* rows of the list already sent in this call
    now,               \* NOW() of the current transaction
    calls,             \* number of store_in_db invocations started
    commits,           \* history: number of invocations that committed
    first_store        \* history: the store right after the first commit

vars == <<pc, GITHUB_TOKEN, DB_PASSWORD, today, start_date, end_date,
          query_chunks, chunk_idx, all_repos_dict, repos_dict, has_next_page,
          after_cursor, remaining_bound, request, data, discovery,
          final_repos_list, store, txn, sent, now, calls, commits, first_store>>

fetchVars == <<repos_dict, has_next_page, after_cursor, remaining_bound, request,
               data, discovery>>
configVars == <<GITHUB_TOKEN, DB_PASSWORD>>
planVars == <<today, start_date, end_date, query_chunks>>
mainVars == <<configVars, planVars, chunk_idx, all_repos_dict, final_repos_list>>
dbVars == <<store, txn, sent, now, calls, commits, first_store>>

NoRequest == [query |-> 0, after |-> NoCursor]

(***************************************************************************)
(* The query planner of __main__                                           *)
(***************************************************************************)
\* PlanStep, but a window ends on the day the window before it starts
PlanStep_NoGap ==
    /\ pc = "plan"
    /\ Len(query_chunks) < PlanChunks
    /\ end_date' = start_date
    /\ start_date' = end_date' - WindowDays
    /\ query_chunks' = Append(query_chunks, [start |-> start_date', end |-> end_date'])
    /\ pc' = IF Len(query_chunks') = PlanChunks THEN "main" ELSE "plan"
    /\ UNCHANGED <<configVars, today, chunk_idx, all_repos_dict, final_repos_list,
                   fetchVars, dbVars>>

\* PlanStep, but the step of the walk is the window's length: a day is left
\* out between two windows
PlanStep_SkipDay ==
    /\ pc = "plan"
    /\ Len(query_chunks) < PlanChunks
    /\ end_date' = start_date - GapDays - GapDays
    /\ start_date' = end_date' - WindowDays
    /\ query_chunks' = Append(query_chunks, [start |-> start_date', end |-> end_date'])
    /\ pc' = IF Len(query_chunks') = PlanChunks THEN "main" ELSE "plan"
    /\ UNCHANGED <<configVars, today, chunk_idx, all_repos_dict, final_repos_list,
                   fetchVars, dbVars>>

\* one iteration of the for loop of lines 154-159; the query string holds
\* the two dates, here the window [start, end]
PlanStep ==
    /\ pc = "plan"
    /\ Len(query_chunks) < PlanChunks
    /\ end_date' = start_date - GapDays
    /\ start_date' = end_date' - WindowDays
    /\ query_chunks' = Append(query_chunks, [start |-> start_date', end |-> end_date'])
    /\ pc' = IF Len(query_chunks') = PlanChunks THEN "main" ELSE "plan"
    /\ UNCHANGED <<configVars, today, chunk_idx, all_repos_dict, final_repos_list,
                   fetchVars, dbVars>>

(***************************************************************************)
(* fetch_repos_for_query                                                   *)
(***************************************************************************)
\* Leaving the while loop (line 111): the print reads the local `remaining`,
\* which only line 106 assigns; unbound, it raises UnboundLocalError, which
\* nothing catches.  Otherwise the mapping is returned (line 112).
LeaveLoop(bound) ==
    /\ pc' = IF bound THEN "returned" ELSE "crashed"
    /\ UNCHANGED <<request, data>>

\* WhileTest, but every request is posted with the null cursor
WhileTest_NullCursor(d, hn, cur, bound) ==
    IF hn /\ Len(d) < limit_per_query
    THEN /\ pc' = "await"
         /\ request' = [query |-> chunk_idx, after |-> NoCursor]
         /\ data' = NoData
    ELSE LeaveLoop(bound)

\* The while test (line 66) on the values d, hn, cur and, when it holds, the
\* POST of the next request with the current cursor (lines 67-74).  The
\* previous response body is dead once the next request is posted.
WhileTest(d, hn, cur, bound) ==
    IF hn /\ Len(d) < limit_per_query
    THEN /\ pc' = "await"
         /\ request' = [query |-> chunk_idx, after |-> cur]
         /\ data' = NoData
    ELSE LeaveLoop(bound)

\* identities of the nodes that ProcessNodes stores, appended at their first
\* collection
RECURSIVE Discover(_, _)
Discover(seen, nodes) ==
    IF nodes = << >> THEN seen
    ELSE LET n == Head(nodes)
             next == IF n # None /\ "id" \in DOMAIN n
                        /\ ~ \E i \in DOMAIN seen : seen[i] = n.id
                     THEN Append(seen, n.id)
                     ELSE seen
         IN  Discover(next, Tail(nodes))

\* __main__ takes the next query and calls fetch_repos_for_query
\* (lines 162-163, 53-74)
CallFetch ==
    /\ pc = "main"
    /\ IF ~GITHUB_TOKEN
       THEN /\ pc' = "crashed"
            /\ UNCHANGED fetchVars
       ELSE /\ repos_dict' = << >>
            /\ has_next_page' = TRUE
            /\ after_cursor' = NoCursor
            /\ remaining_bound' = FALSE
            /\ WhileTest(<< >>, TRUE, NoCursor, FALSE)
            /\ UNCHANGED discovery
    /\ UNCHANGED <<mainVars, dbVars>>

\* requests.post or raise_for_status raises RequestException (lines 69-77)
TransientFailure ==
    /\ pc = "await"
    /\ pc' = "backoff"
    /\ UNCHANGED <<fetchVars, mainVars, dbVars>>

\* Backoff, but the retry starts the chunk's pagination over (null cursor)
Backoff_RestartCursor ==
    /\ pc = "backoff"
    /\ after_cursor' = NoCursor
    /\ WhileTest(repos_dict, has_next_page, NoCursor, remaining_bound)
    /\ UNCHANGED <<repos_dict, has_next_page, remaining_bound,
                   discovery, mainVars, dbVars>>

\* time.sleep(15); continue (lines 78-79), then the while test and the POST
Backoff ==
    /\ pc = "backoff"
    /\ WhileTest(repos_dict, has_next_page, after_cursor, remaining_bound)
    /\ UNCHANGED <<repos_dict, has_next_page, after_cursor, remaining_bound,
                   discovery, mainVars, dbVars>>

\* a 2xx response arrives whose body is not JSON or not a JSON object:
\* response.json() (line 81) or the tests of lines 83 and 87 raise, outside
\* the try of lines 68-79
ReceiveBadBody ==
    /\ pc = "await"
    /\ pc' = "crashed"
    /\ UNCHANGED <<fetchVars, mainVars, dbVars>>

\* a 2xx response arrives and is parsed (line 81)
Receive(r) ==
    /\ pc = "await"
    /\ data' = r
    /\ pc' = "process"
    /\ UNCHANGED <<repos_dict, has_next_page, after_cursor, remaining_bound,
                   request, discovery, mainVars, dbVars>>

\* the rest of the loop body (lines 83-109), then the while test
Process ==
    /\ pc = "process"
    /\ IF data.has_errors
       THEN \* line 83-85: break
            /\ LeaveLoop(remaining_bound)
            /\ UNCHANGED <<repos_dict, has_next_page, after_cursor,
                           remaining_bound, discovery>>
       ELSE IF data.shape \in {"null", "no_search", "search_null", "nodes_null"}
       THEN \* line 87: data['data']['search'] raises TypeError or KeyError;
            \* line 89: None.get raises AttributeError; line 90: the for
            \* loop over None raises TypeError
            /\ pc' = "crashed"
            /\ UNCHANGED fetchVars
       ELSE IF data.shape = "no_page_info"
       THEN \* lines 101-103 raise TypeError or KeyError after the nodes
            \* have been stored
            /\ repos_dict' = ProcessNodes(repos_dict, data.nodes)
            /\ discovery' = Discover(discovery, data.nodes)
            /\ pc' = "crashed"
            /\ UNCHANGED <<has_next_page, after_cursor, remaining_bound,
                           request, data>>
       ELSE IF data.rateLimit = "null"
       THEN \* line 105 gets None, line 106 raises AttributeError after the
            \* nodes and the page info have been stored
            /\ repos_dict' = ProcessNodes(repos_dict, data.nodes)
            /\ discovery' = Discover(discovery, data.nodes)
            /\ has_next_page' = data.hasNextPage
            /\ after_cursor' = data.endCursor
            /\ pc' = "crashed"
            /\ UNCHANGED <<remaining_bound, request, data>>
       ELSE LET d == ProcessNodes(repos_dict, data.nodes)
            IN  /\ repos_dict' = d
                /\ has_next_page' = data.hasNextPage
                /\ after_cursor' = data.endCursor
                /\ remaining_bound' = TRUE
                /\ discovery' = Discover(discovery, data.nodes)
                /\ WhileTest(d, data.hasNextPage, data.endCursor, TRUE)
    /\ UNCHANGED <<mainVars, dbVars>>

(***************************************************************************)
(* __main__                                                                *)
(***************************************************************************)
\* Merge, but without the target test: every chunk query is fetched
Merge_NoTargetTest ==
    /\ pc = "returned"
    /\ all_repos_dict' = DictUpdate(all_repos_dict, repos_dict)
    /\ IF chunk_idx = NumChunks
       THEN pc' = "finish" /\ UNCHANGED chunk_idx
       ELSE pc' = "main" /\ chunk_idx' = chunk_idx + 1
    /\ has_next_page' = TRUE
    /\ after_cursor' = NoCursor
    /\ remaining_bound' = FALSE
    /\ request' = NoRequest
    /\ data' = NoData
    /\ UNCHANGED <<configVars, planVars, final_repos_list, repos_dict, discovery,
                   dbVars>>

\* all_repos_dict.update(chunk_dict), the target test and the next iteration
\* of the for loop (lines 162-171)
Merge ==
    /\ pc = "returned"
    /\ LET merged == DictUpdate(all_repos_dict, repos_dict)
       IN  /\ all_repos_dict' = merged
           /\ IF Len(merged) >= TARGET_COUNT \/ chunk_idx = NumChunks
              THEN pc' = "finish" /\ UNCHANGED chunk_idx
              ELSE pc' = "main" /\ chunk_idx' = chunk_idx + 1
    \* the locals of fetch_repos_for_query are gone once it has returned;
    \* repos_dict stays, as chunk_dict
    /\ has_next_page' = TRUE
    /\ after_cursor' = NoCursor
    /\ remaining_bound' = FALSE
    /\ request' = NoRequest
    /\ data' = NoData
    /\ UNCHANGED <<configVars, planVars, final_repos_list, repos_dict, discovery,
                   dbVars>>

\* lines 174-180
Finish ==
    /\ pc = "finish"
    /\ final_repos_list' = Truncate(all_repos_dict)
    /\ pc' = "store"
    /\ UNCHANGED <<configVars, planVars, chunk_idx, all_repos_dict, fetchVars,
                   dbVars>>

(***************************************************************************)
(* store_in_db                                                             *)
(***************************************************************************)
Min(a, b) == IF a < b THEN a ELSE b

\* Upsert, but a plain INSERT into a table without the unique key
Upsert_AlwaysInsert(rows, rec, t) ==
    rows \cup {[id |-> rec[1], name |-> rec[2], stargazer_count |-> rec[3],
                crawled_at |-> DefaultCrawledAt]}

\* Upsert, but the conflict clause also sets name = EXCLUDED.name
Upsert_OverwriteName(rows, rec, t) ==
    IF \E r \in rows : r.id = rec[1]
    THEN {IF r.id = rec[1]
          THEN [r EXCEPT !.name = rec[2], !.stargazer_count = rec[3], !.crawled_at = t]
          ELSE r : r \in rows}
    ELSE rows \cup {[id |-> rec[1], name |-> rec[2], stargazer_count |-> rec[3],
                     crawled_at |-> DefaultCrawledAt]}

\* One row of VALUES under INSERT ... ON CONFLICT (id) DO UPDATE SET
\* stargazer_count = EXCLUDED.stargazer_count, crawled_at = NOW()
\* (lines 122-128), at transaction time t
Upsert(rows, rec, t) ==
    IF \E r \in rows : r.id = rec[1]
    THEN {IF r.id = rec[1]
          THEN [r EXCEPT !.stargazer_count = rec[3], !.crawled_at = t]
          ELSE r : r \in rows}
    ELSE rows \cup {[id |-> rec[1], name |-> rec[2], stargazer_count |-> rec[3],
                     crawled_at |-> DefaultCrawledAt]}

\* one INSERT statement of execute_values: a sub-batch of rows
RECURSIVE UpsertAll(_, _, _)
UpsertAll(rows, batch, t) ==
    IF batch = << >> THEN rows
    ELSE UpsertAll(Upsert(rows, Head(batch), t), Tail(batch), t)

\* StoreCall, but without the test of lines 118-120: a connection is opened
\* for any list
StoreCall_NoEmptyCheck ==
    /\ pc = "store"
    /\ calls' = calls + 1
    /\ \/ /\ DB_PASSWORD
          /\ pc' = "execute"
          /\ txn' = store
          /\ sent' = 0
          /\ now' = now + 1
       \/ /\ pc' = "exit"
          /\ UNCHANGED <<txn, sent, now>>
    /\ UNCHANGED <<store, commits, first_store, mainVars, fetchVars>>

\* the call: the empty-list return (lines 118-120) or psycopg2.connect
\* (line 133), which opens a transaction or raises psycopg2.Error
StoreCall ==
    /\ pc = "store"
    /\ calls' = calls + 1
    /\ \/ /\ final_repos_list = << >>
          /\ pc' = "exit"
          /\ UNCHANGED <<txn, sent, now>>
       \/ /\ final_repos_list # << >>
          /\ DB_PASSWORD
          /\ pc' = "execute"
          /\ txn' = store
          /\ sent' = 0
          /\ now' = now + 1
       \/ /\ final_repos_list # << >>
          /\ pc' = "exit"
          /\ UNCHANGED <<txn, sent, now>>
    /\ UNCHANGED <<store, commits, first_store, mainVars, fetchVars>>

\* ExecutePage, but on a connection in autocommit mode: every statement is
\* committed on its own
ExecutePage_Autocommit ==
    /\ pc = "execute"
    /\ sent < Len(final_repos_list)
    /\ LET upto == Min(sent + page_size, Len(final_repos_list))
       IN  /\ txn' = UpsertAll(txn, SubSeq(final_repos_list, sent + 1, upto), now)
           /\ sent' = upto
    /\ store' = txn'
    /\ UNCHANGED <<pc, now, calls, commits, first_store, mainVars, fetchVars>>

\* execute_values sends the next page_size rows as one statement (line 136)
ExecutePage ==
    /\ pc = "execute"
    /\ sent < Len(final_repos_list)
    /\ LET upto == Min(sent + page_size, Len(final_repos_list))
       IN  /\ txn' = UpsertAll(txn, SubSeq(final_repos_list, sent + 1, upto), now)
           /\ sent' = upto
    /\ UNCHANGED <<pc, store, now, calls, commits, first_store, mainVars, fetchVars>>

\* conn.commit() (line 137), then the connection is closed (lines 141-143)
Commit ==
    /\ pc = "execute"
    /\ sent = Len(final_repos_list)
    /\ store' = txn
    /\ commits' = commits + 1
    /\ first_store' = IF commits = 0 THEN txn ELSE first_store
    /\ pc' = "exit"
    /\ UNCHANGED <<txn, sent, now, calls, mainVars, fetchVars>>

\* a statement or the commit raises psycopg2.Error (lines 139-143): the
\* connection is closed without a commit, which rolls the transaction back
DbError ==
    /\ pc = "execute"
    /\ txn' = store
    /\ pc' = "exit"
    /\ UNCHANGED <<store, sent, now, calls, commits, first_store, mainVars, fetchVars>>

\* the program is run again and reaches store_in_db with the same list
Rerun ==
    /\ pc = "exit"
    /\ calls < MaxCalls
    /\ pc' = "store"
    /\ UNCHANGED <<dbVars, mainVars, fetchVars>>

(***************************************************************************)
(* Specifications                                                          *)
(***************************************************************************)
\* The state at line 162, with the planned queries taken as the indices
\* 1..NumChunks, against an empty table.
RunStart ==
    /\ pc = "main"
    /\ GITHUB_TOKEN \in BOOLEAN
    /\ today = 0
    /\ start_date = 0
    /\ end_date = 0
    /\ query_chunks = << >>
    /\ chunk_idx = 1
    /\ all_repos_dict = << >>
    /\ repos_dict = << >>
    /\ has_next_page = TRUE
    /\ after_cursor = NoCursor
    /\ remaining_bound = FALSE
    /\ request = NoRequest
    /\ data = NoData
    /\ discovery = << >>
    /\ final_repos_list = << >>
    /\ store = {}
    /\ txn = {}
    /\ sent = 0
    /\ now = 0
    /\ calls = 0
    /\ commits = 0
    /\ first_store = {}

\* A run of the program with usable connection parameters of the store.
Init ==
    /\ DB_PASSWORD = TRUE
    /\ RunStart

\* A run of the program under any configuration.
InitConfig ==
    /\ DB_PASSWORD \in BOOLEAN
    /\ RunStart

Next ==
    \/ CallFetch
    \/ TransientFailure
    \/ Backoff
    \/ \E r \in Responses : Receive(r)
    \/ ReceiveBadBody
    \/ Process
    \/ Merge
    \/ Finish
    \/ StoreCall
    \/ ExecutePage
    \/ Commit
    \/ DbError

Spec == Init /\ [][Next]_vars

SpecConfig == InitConfig /\ [][Next]_vars

\* The planner alone (lines 153-159), for any run date.
InitPlan ==
    /\ pc = "plan"
    /\ GITHUB_TOKEN = TRUE
    /\ DB_PASSWORD = TRUE
    /\ today \in 0..MaxToday
    /\ start_date = today
    /\ end_date = today
    /\ query_chunks = << >>
    /\ chunk_idx = 1
    /\ all_repos_dict = << >>
    /\ repos_dict = << >>
    /\ has_next_page = TRUE
    /\ after_cursor = NoCursor
    /\ remaining_bound = FALSE
    /\ request = NoRequest
    /\ data = NoData
    /\ discovery = << >>
    /\ final_repos_list = << >>
    /\ store = {}
    /\ txn = {}
    /\ sent = 0
    /\ now = 0
    /\ calls = 0
    /\ commits = 0
    /\ first_store = {}

NextPlan == PlanStep

SpecPlan == InitPlan /\ [][NextPlan]_vars

\* The source answers every request with a parsed response eventually, and
\* the single thread of control keeps running.
FairSpec ==
    /\ Spec
    /\ WF_vars(CallFetch \/ Backoff \/ Process \/ Merge \/ Finish
               \/ StoreCall \/ ExecutePage \/ Commit)
    /\ SF_vars(\E r \in Responses : Receive(r))

\* store_in_db alone: any list of records with distinct identities that
\* __main__ can hand over, any table contents, the call made MaxCalls times.
Records == {<<i, NameAt(v), v>> : i \in Ids, v \in Obs}
Lists == {l \in SeqsUpTo(Records, TARGET_COUNT) :
            \A i, j \in DOMAIN l : i # j => l[i][1] # l[j][1]}
Rows == {[id |-> i, name |-> NameAt(v), stargazer_count |-> v,
          crawled_at |-> DefaultCrawledAt] : i \in Ids, v \in Obs}
Tables == {t \in SUBSET Rows : \A r, q \in t : r.id = q.id => r = q}

InitStore ==
    /\ pc = "store"
    /\ GITHUB_TOKEN = TRUE
    /\ DB_PASSWORD = TRUE
    /\ today = 0
    /\ start_date = 0
    /\ end_date = 0
    /\ query_chunks = << >>
    /\ chunk_idx = 1
    /\ all_repos_dict = << >>
    /\ repos_dict = << >>
    /\ has_next_page = TRUE
    /\ after_cursor = NoCursor
    /\ remaining_bound = FALSE
    /\ request = NoRequest
    /\ data = NoData
    /\ discovery = << >>
    /\ final_repos_list \in Lists
    /\ store \in Tables
    /\ txn = {}
    /\ sent = 0
    /\ now = 0
    /\ calls = 0
    /\ commits = 0
    /\ first_store = {}

NextStore ==
    \/ StoreCall
    \/ ExecutePage
    \/ Commit
    \/ DbError
    \/ Rerun

SpecStore == InitStore /\ [][NextStore]_vars

TypeOK ==
    /\ pc \in {"plan", "main", "await", "backoff", "process", "returned", "finish",
               "store", "execute", "exit", "crashed"}
    /\ chunk_idx \in 1..NumChunks
    /\ has_next_page \in BOOLEAN
    /\ after_cursor \in Cursors

(***************************************************************************)
(* Properties of fetch_repos_for_query and __main__ (specification Spec)   *)
(***************************************************************************)
InChunk == pc \in {"await", "backoff", "process"}
Handed == pc \in {"store", "execute", "exit"}
ValidIds(nodes) ==
    {nodes[i].id : i \in {j \in DOMAIN nodes : nodes[j] # None /\ "id" \in DOMAIN nodes[j]}}

\* C1: the mapping fetch_repos_for_query returns holds at most
\* limit_per_query identities, whatever pages the source sends.
C1_ChunkWithinCap ==
    pc = "returned" => Len(repos_dict) <= limit_per_query

\* C2: a response with a top-level error list whose data holds
\* result nodes has those nodes collected, and pagination goes on with the
\* response's cursor; stated for the responses that follow a processed page
\* of their chunk.
C2_PartialErrorContinues ==
    [][(pc = "process" /\ data.has_errors /\ data.shape = "search"
          /\ remaining_bound)
         => /\ repos_dict' = ProcessNodes(repos_dict, data.nodes)
            /\ after_cursor' = data.endCursor
            /\ (data.hasNextPage /\ Len(repos_dict') < limit_per_query
                  => pc' = "await")]_vars

\* C3: a response without usable data or without the search container
\* never aborts the run (it ends the current chunk only); stated for the
\* responses that carry no error list.
C3_BadShapeAbortsOnlyChunk ==
    ~(pc = "crashed" /\ ~data.has_errors /\ data.shape \in {"null", "no_search"})

\* C4: a run with its credential set, whose requests all get a parsed
\* response eventually, reaches DONE and hands its list to the persister.
C4_ReachesDone ==
    GITHUB_TOKEN => <>Handed

\* C5: a transient failure changes nothing the collector holds, and the
\* request posted after the backoff is the request that failed.
C5_RetryIdentical ==
    [][/\ (pc = "await" /\ pc' = "backoff")
            => UNCHANGED <<repos_dict, after_cursor, has_next_page, request,
                           all_repos_dict, chunk_idx, discovery>>
       /\ pc = "backoff"
            => /\ pc' = "await"
               /\ request' = request
               /\ request'.after = after_cursor
               /\ UNCHANGED <<repos_dict, after_cursor, has_next_page,
                              all_repos_dict, chunk_idx, discovery>>]_vars

\* C5 witness: a request of a chunk that has collected a record and holds a
\* non-null cursor has failed and is about to be retried.
C5_Witness ==
    /\ pc = "backoff"
    /\ repos_dict # << >>
    /\ after_cursor # NoCursor
    /\ request.after = after_cursor

\* C6: the list handed to the persister has min(TARGET_COUNT, size of the
\* accumulator) records: the accumulator's records of the first identities
\* in order of first discovery.
C6_FinalList ==
    Handed =>
        /\ Len(final_repos_list) <= TARGET_COUNT
        /\ Len(final_repos_list) = Min(TARGET_COUNT, Len(all_repos_dict))
        /\ Len(discovery) >= Len(final_repos_list)
        /\ \A k \in DOMAIN final_repos_list :
              /\ final_repos_list[k][1] = discovery[k]
              /\ final_repos_list[k] = Lookup(all_repos_dict, discovery[k])

\* C6 witness: the accumulator overshot the target, and the first record of
\* the list is of an identity an earlier chunk discovered and the last chunk
\* observed again, after an identity that was new.
C6_Witness ==
    /\ Handed
    /\ Len(all_repos_dict) > TARGET_COUNT
    /\ chunk_idx >= 2
    /\ repos_dict # << >>
    /\ LET k == final_repos_list[1][1]
       IN  /\ HasKey(repos_dict, k)
           /\ IndexOf(repos_dict, k) > 1
           /\ \E j \in DOMAIN all_repos_dict :
                 j > 1 /\ all_repos_dict[j][1] = repos_dict[1][1]

\* C7: the target is tested only when a chunk has returned: inside a chunk
\* the accumulator is not touched and pagination goes on whatever the
\* accumulator and the chunk hold together; the run turns to DONE only from
\* a returned chunk, with all its records merged; it does so whenever the
\* merged accumulator has reached the target, and the list then has exactly
\* TARGET_COUNT records.
C7_TargetCheckedBetweenChunks ==
    [][/\ InChunk => /\ all_repos_dict' = all_repos_dict
                     /\ chunk_idx' = chunk_idx
                     /\ pc' \in {"await", "backoff", "process", "returned", "crashed"}
       /\ (pc = "process" /\ ~data.has_errors /\ data.shape = "search"
             /\ data.rateLimit = "ok"
             /\ data.hasNextPage /\ Len(repos_dict') < limit_per_query)
            => pc' = "await"
       /\ pc' = "finish"
            => /\ pc = "returned"
               /\ \A k \in Keys(repos_dict) :
                     /\ HasKey(all_repos_dict', k)
                     /\ Lookup(all_repos_dict', k) = Lookup(repos_dict, k)
       /\ (pc = "returned" /\ Len(all_repos_dict') >= TARGET_COUNT)
            => pc' = "finish"
       /\ (pc = "finish" /\ Len(all_repos_dict) >= TARGET_COUNT)
            => Len(final_repos_list') = TARGET_COUNT]_vars

\* C7 witness: a request is in flight for a chunk although the accumulator
\* and the chunk's mapping together already hold TARGET_COUNT identities.
C7_Witness ==
    /\ pc = "await"
    /\ repos_dict # << >>
    /\ Cardinality(Keys(all_repos_dict) \cup Keys(repos_dict)) >= TARGET_COUNT

\* C8: merging a chunk is last-write-wins per identity: the accumulator then
\* holds the identities of both, the chunk's record for every identity of
\* the chunk and its previous record for every other identity.
C8_MergeLastWriteWins ==
    [][pc = "returned"
         => /\ Keys(all_repos_dict') = Keys(all_repos_dict) \cup Keys(repos_dict)
            /\ Len(all_repos_dict') = Cardinality(Keys(all_repos_dict'))
            /\ \A k \in Keys(all_repos_dict') :
                  Lookup(all_repos_dict', k) =
                     IF HasKey(repos_dict, k) THEN Lookup(repos_dict, k)
                     ELSE Lookup(all_repos_dict, k)]_vars

\* C8 witness: a chunk has been merged that observed an identity of an
\* earlier chunk again (it stands in the accumulator before an identity the
\* chunk collected first), and the accumulator holds the chunk's record.
C8_Witness ==
    /\ pc \in {"main", "finish"}
    /\ \E i, j \in DOMAIN all_repos_dict :
          /\ i < j
          /\ HasKey(repos_dict, all_repos_dict[i][1])
          /\ HasKey(repos_dict, all_repos_dict[j][1])
          /\ IndexOf(repos_dict, all_repos_dict[i][1])
                > IndexOf(repos_dict, all_repos_dict[j][1])
          /\ all_repos_dict[i] = Lookup(repos_dict, all_repos_dict[i][1])

(***************************************************************************)
(* Properties of store_in_db (specification SpecStore)                     *)
(***************************************************************************)
OneRowPerId(rows) == \A r, q \in rows : r.id = q.id => r = q
Fields(rows) ==
    {[id |-> r.id, name |-> r.name, stargazer_count |-> r.stargazer_count] : r \in rows}

\* C9 as stated: once a call has committed, calling store_in_db again with
\* the same list leaves the store in the state the first call left, and no
\* identity has two rows.
C9_Idempotent ==
    /\ OneRowPerId(store)
    /\ commits >= 1 => store = first_store

\* C9 as amended: once a call has committed, calling store_in_db again with
\* the same list leaves the identity, display name and popularity score of
\* every row as the first call left them (the second call only sets
\* crawled_at of the list's rows anew), and no identity ever has two rows,
\* committed or in the open transaction.
C9_IdempotentFields ==
    /\ OneRowPerId(store)
    /\ OneRowPerId(txn)
    /\ commits >= 1 => Fields(store) = Fields(first_store)

\* C9 witness: the same list has been committed twice; the second call has
\* refreshed crawled_at of a row.
C9_Witness ==
    /\ pc = "exit"
    /\ commits = 2
    /\ Len(final_repos_list) = TARGET_COUNT
    /\ \E r \in store : r.crawled_at = now /\ r \notin first_store

\* C10 as stated: a record written over a stored row of its identity leaves
\* one row of that identity, with the record's display name and popularity
\* score.
C10_NameOverwritten ==
    [][(pc = "execute" /\ sent' > sent)
         => \A k \in (sent + 1)..sent' :
               LET rec == final_repos_list[k]
               IN  \A r \in txn : r.id = rec[1]
                      => \E q \in txn' : /\ q.id = rec[1]
                                         /\ q.name = rec[2]
                                         /\ q.stargazer_count = rec[3]]_vars

\* C10 as amended: a record written over a stored row of its identity leaves
\* exactly one row of that identity, with the display name the store held
\* before (the record's name is not written), the record's popularity score
\* and crawled_at set to the transaction's NOW().
C10_ConflictKeepsName ==
    [][(pc = "execute" /\ sent' > sent)
         => \A k \in (sent + 1)..sent' :
               LET rec == final_repos_list[k]
               IN  \A r \in txn : r.id = rec[1]
                      => {q \in txn' : q.id = rec[1]}
                           = {[id |-> r.id, name |-> r.name,
                               stargazer_count |-> rec[3], crawled_at |-> now]}]_vars

\* C10 witness: a call has committed a record over a stored row that had
\* another display name: the row has the record's popularity score, the
\* call's timestamp and not the record's name.
C10_Witness ==
    /\ pc = "exit"
    /\ commits = 1
    /\ \E r \in store : \E k \in DOMAIN final_repos_list :
          /\ r.id = final_repos_list[k][1]
          /\ r.name # final_repos_list[k][2]
          /\ r.stargazer_count = final_repos_list[k][3]
          /\ r.crawled_at = now

\* C11: one call is atomic over its sub-batches: a statement of
\* execute_values commits nothing; the store changes only at the commit that
\* follows the last sub-batch, and then holds the effect of the whole list;
\* a call that ends on an error leaves the store as it was, and the call is
\* not started over.
C11_AtomicCall ==
    [][/\ (pc = "execute" /\ pc' = "execute") => store' = store
       /\ store' # store => commits' = commits + 1
       /\ commits' = commits + 1
            => /\ pc = "execute" /\ pc' = "exit"
               /\ sent = Len(final_repos_list)
               /\ store' = UpsertAll(store, final_repos_list, now)
       /\ (pc = "execute" /\ pc' = "exit" /\ commits' = commits)
            => store' = store
       /\ pc = "execute"
            => /\ pc' \in {"execute", "exit"}
               /\ sent' >= sent
               /\ calls' = calls]_vars

\* C11 witness: the first call has ended on an error after its first
\* sub-batch and before its last; the store holds no row of the first
\* sub-batch's identity.
C11_Witness ==
    /\ pc = "exit"
    /\ calls = 1
    /\ commits = 0
    /\ sent >= 1
    /\ sent < Len(final_repos_list)
    /\ \A r \in store : r.id # final_repos_list[1][1]

\* C12: store_in_db called with an empty list returns at once: no
\* connection or transaction is opened and the store is unchanged.
C12_EmptyListNoOp ==
    [][(pc = "store" /\ final_repos_list = << >>)
         => /\ pc' = "exit"
            /\ UNCHANGED <<store, txn, sent, now, commits>>]_vars

\* C12 witness: a call with the empty list has returned, the table holding
\* rows, and no transaction was ever begun.
C12_Witness ==
    /\ pc = "exit"
    /\ final_repos_list = << >>
    /\ calls >= 1
    /\ store # {}
    /\ now = 0

(***************************************************************************)
(* Properties of the configuration (specification SpecConfig)              *)
(***************************************************************************)
\* C14: when the credential or the store's connection parameters are missing
\* or unusable, no request to the remote source is ever in flight.
C14_ConfigFatalBeforeNetwork ==
    (~GITHUB_TOKEN \/ ~DB_PASSWORD) => ~InChunk

(***************************************************************************)
(* Properties of the pages of a chunk (specification Spec)                 *)
(***************************************************************************)
OkPage == pc = "process" /\ ~data.has_errors /\ data.shape = "search"
IsRepo(n) == n # None /\ "id" \in DOMAIN n
\* the record of the last node of the page that carries the identity id
LastRecord(nodes, id) ==
    LET k == CHOOSE k \in DOMAIN nodes :
                 /\ IsRepo(nodes[k]) /\ nodes[k].id = id
                 /\ \A j \in DOMAIN nodes :
                       j > k => ~(IsRepo(nodes[j]) /\ nodes[j].id = id)
    IN  <<nodes[k].id, nodes[k].nameWithOwner, nodes[k].stargazerCount>>

\* C15: a chunk starts from the empty mapping; every page that arrives
\* without an error list and with its search results adds exactly its
\* identities to the mapping, each identity of the page mapped to the page's
\* last record for it and every other identity keeping its record; a page
\* with has-more = false makes the collector return that mapping.  Over the
\* pages of a chunk: the identities of all pages, each with the record of
\* the last page that held it.
C15_PagesCollected ==
    [][/\ (pc = "main" /\ pc' = "await") => repos_dict' = << >>
       /\ OkPage
            => /\ Keys(repos_dict') = Keys(repos_dict) \cup ValidIds(data.nodes)
               /\ \A id \in Keys(repos_dict') :
                     Lookup(repos_dict', id) =
                        IF id \in ValidIds(data.nodes)
                        THEN LastRecord(data.nodes, id)
                        ELSE Lookup(repos_dict, id)
               /\ (~data.hasNextPage => pc' = "returned")
       /\ (pc = "await" \/ pc = "backoff") => repos_dict' = repos_dict]_vars

\* C16: nodes that are null or lack an id never become entries of the
\* mapping, do not count in the test against the cap, and do not keep the
\* other nodes of their page from being collected.
C16_JunkNodesDropped ==
    [][OkPage
         => LET collected == Keys(repos_dict) \cup ValidIds(data.nodes)
                below == Cardinality(collected) < limit_per_query
            IN  /\ Keys(repos_dict') \subseteq collected
                /\ ValidIds(data.nodes) \subseteq Keys(repos_dict')
                /\ Len(repos_dict') = Cardinality(collected)
                /\ pc' = "await" => (data.hasNextPage /\ below)
                /\ pc' = "returned" => ~(data.hasNextPage /\ below)]_vars

\* C16 witness: the collector has returned below the cap after a page that
\* held a null or id-less node followed by a node with an identity, which
\* the mapping holds.
C16_Witness ==
    /\ pc = "returned"
    /\ ~data.has_errors /\ data.shape = "search"
    /\ Len(data.nodes) = 2
    /\ ~IsRepo(data.nodes[1])
    /\ IsRepo(data.nodes[2])
    /\ HasKey(repos_dict, data.nodes[2].id)
    /\ Len(repos_dict) < limit_per_query

\* C17: a response with a top-level error list, at any page of a chunk, makes
\* fetch_repos_for_query return the mapping of the pages processed before it.
C17_ErrorReturnsNormally ==
    [][(pc = "process" /\ data.has_errors)
         => /\ pc' = "returned"
            /\ repos_dict' = repos_dict]_vars

\* C19: the first request of a chunk carries the null cursor, a request that
\* follows a processed response carries that response's end cursor, a retry
\* carries the cursor of the request that failed, and every request carries
\* the query of the chunk in progress.
C19_CursorScopedToChunk ==
    [][/\ (pc = "main" /\ pc' = "await") => request'.after = NoCursor
       /\ (pc = "process" /\ pc' = "await")
            => request'.after = data.endCursor
       /\ (pc = "backoff" /\ pc' = "await") => request'.after = request.after
       /\ pc' \in {"await", "backoff", "process"}
            => /\ request'.query = chunk_idx'
               /\ chunk_idx' = chunk_idx]_vars

\* C19 witness: a later request of the second chunk is in flight with a
\* non-null cursor.
C19_Witness ==
    /\ pc = "await"
    /\ chunk_idx = 2
    /\ request.query = 2
    /\ request.after # NoCursor

(***************************************************************************)
(* Properties of the query planner (specification SpecPlan)                *)
(***************************************************************************)
\* C13 as stated: each window's start is one day before the end of the
\* window planned before it.
C13_StartBeforePrevEnd ==
    \A i \in 2..Len(query_chunks) :
        query_chunks[i].start = query_chunks[i - 1].end - 1

\* C13 as amended: the planner walks backward: each window's end is one day
\* before the start of the window planned before it, so consecutive windows
\* are contiguous and do not overlap.
C13_EndBeforePrevStart ==
    \A i \in 2..Len(query_chunks) :
        /\ query_chunks[i].end = query_chunks[i - 1].start - 1
        /\ query_chunks[i].start <= query_chunks[i].end

\* C13 witness: the planner has produced all its windows.
C13_Witness ==
    /\ pc = "main"
    /\ Len(query_chunks) = PlanChunks

\* C18: the planner ends with exactly 120 windows of end - start = 30 days;
\* none contains the run date or a date before run date - 3720 days, and
\* every date from run date - 3720 days to run date - 1 day lies in exactly
\* one of them.
C18_Partition ==
    pc # "plan" =>
        /\ Len(query_chunks) = 120
        /\ \A k \in DOMAIN query_chunks :
              /\ query_chunks[k].end - query_chunks[k].start = 30
              /\ query_chunks[k].end < today
              /\ query_chunks[k].start >= today - 3720
        /\ \A d \in (today - 3720)..(today - 1) :
              Cardinality({k \in DOMAIN query_chunks :
                             query_chunks[k].start <= d /\ d <= query_chunks[k].end}) = 1

\* C18 witness: planning is over; the first window ends the day before the
\* run date and the last one starts 3720 days before it.
C18_Witness ==
    /\ pc = "main"
    /\ query_chunks # << >>
    /\ query_chunks[1].end = today - 1
    /\ query_chunks[Len(query_chunks)].start = today - 3720

=============================================================================
